---- MODULE Spec2Model ----
(***************************************************************************)
(* A model of coBib's database-mutation pipeline: the Add command, the     *)
(* Undo command and the version-controlled backing file they act on.       *)
(*                                                                         *)
(* The backing file and the in-process Database are mappings from labels   *)
(* to entries.  The commit log is kept newest first, as `git log` prints   *)
(* it; every commit records its identifier, the tokens of its subject line *)
(* and the content of the backing file it snapshots.  git is an external   *)
(* process: the exit statuses of its revert and commit steps are inputs of *)
(* the Undo action.                                                        *)
(***************************************************************************)
EXTENDS Integers, Sequences, FiniteSets, TLC

VARIABLES
    git_tracked,   \* config.database.git
    git_init,      \* the backing directory holds a .git directory
    log,           \* commit log, newest first
    file,          \* backing file: label -> field mapping
    db,            \* Database singleton: label -> Entry
    last,          \* what the last command invocation did
    reverts,       \* shas reverted by successful Undo invocations, in order
    git_failures   \* how many git steps have failed for a reason outside the model

vars == <<git_tracked, git_init, log, file, db, last, reverts, git_failures>>

(***************************************************************************)
(* Bounds                                                                  *)
(***************************************************************************)
MaxCommits == 3

MaxUserCommits == 1

MaxGitFailures == 2

Labels == {"a", "b"}

(***************************************************************************)
(* Entries and label mappings                                              *)
(***************************************************************************)
None == "None"

NoSha == "none"

default_entry_type == "article"

EmptyMap == [l \in {} |-> None]

\* the backing file does not exist
NoFile == [l \in {"<no file>"} |-> None]

\* Entry.__init__
Entry(label, data) == [label |-> label, data |-> data]

\* set_label that leaves the ID field as it was
set_label_labelOnly(e, label) == [label |-> label, data |-> e.data]

\* Entry.set_label: replaces the label and the mirrored ID field
set_label(e, label) ==
    [label |-> label, data |-> [f \in DOMAIN e.data |-> IF f = "ID" THEN label ELSE e.data[f]]]

(***************************************************************************)
(* Text is a sequence of one-character strings                             *)
(***************************************************************************)
\* str.lstrip(chars), str.rstrip(chars), str.strip(chars)
RECURSIVE lstrip(_, _)
lstrip(text, chars) ==
    IF text # <<>> /\ Head(text) \in chars THEN lstrip(Tail(text), chars) ELSE text

RECURSIVE rstrip(_, _)
rstrip(text, chars) ==
    IF text # <<>> /\ text[Len(text)] \in chars
    THEN rstrip(SubSeq(text, 1, Len(text) - 1), chars) ELSE text

strip(text, chars) == rstrip(lstrip(text, chars), chars)

\* ''.join(tag.strip('+') + ', ' for tag in tags)
RECURSIVE JoinTags(_)
JoinTags(tags) ==
    IF tags = <<>> THEN <<>>
    ELSE strip(Head(tags), {"+"}) \o <<",", " ">> \o JoinTags(Tail(tags))

\* a field mapping with one field set
WithField(data, field, value) ==
    [f \in DOMAIN data \cup {field} |-> IF f = field THEN value ELSE data[f]]

\* set_tags that joins the tokens with a comma alone
set_tags_noBlank(e, tags) ==
    [label |-> e.label,
     data |-> WithField(e.data, "tags",
                        strip(SelectSeq(JoinTags(tags), LAMBDA c : c # " "), {",", " "}))]

\* Entry.set_tags
set_tags(e, tags) ==
    [label |-> e.label,
     data |-> WithField(e.data, "tags", strip(JoinTags(tags), {",", " "}))]

\* os.path.abspath of a relative path
abspath(path) == "/cwd/" \o path

\* Entry.set_file
set_file(e, path) == [label |-> e.label, data |-> WithField(e.data, "file", abspath(path))]

(***************************************************************************)
(* YAML: Entry.to_yaml and Entry.from_yaml                                 *)
(***************************************************************************)
\* a Python value: its type and its text
PyStr(text) == [type |-> "str", text |-> text]

PyInt(text) == [type |-> "int", text |-> text]

\* the texts that the YAML resolver takes for an integer, a boolean, a null
\* and a nested mapping when they stand as plain scalars
IntTexts == {"1905"}

BoolTexts == {"true"}

NullTexts == {"", "null"}

MapTexts == {"a: b"}

\* the value that the loader makes of a scalar: a quoted scalar is a string,
\* a plain one is resolved by its text
Resolve(style, text) ==
    IF style = "single" THEN PyStr(text)
    ELSE [type |-> IF text \in IntTexts THEN "int"
                   ELSE IF text \in BoolTexts THEN "bool"
                   ELSE IF text \in NullTexts THEN "null"
                   ELSE IF text \in MapTexts THEN "map"
                   ELSE "str",
          text |-> text]

\* the scalar that the dumper writes for a value: a string that would be
\* resolved to something else is quoted
Represent(value) ==
    [style |-> IF value.type = "str" /\ Resolve("plain", value.text).type # "str"
               THEN "single" ELSE "plain",
     text |-> value.text]

\* a line of YAML text
YamlLine(kind, key, scalar) == [kind |-> kind, key |-> key, scalar |-> scalar]

NoScalar == [style |-> "plain", text |-> ""]

\* the lines of the fields of a mapping, in the dict's order
RECURSIVE FieldLines(_, _)
FieldLines(data, fields) ==
    IF fields = {} THEN <<>>
    ELSE LET f == CHOOSE g \in fields : TRUE
         IN  <<YamlLine("field", f, Represent(data[f]))>> \o FieldLines(data, fields \ {f})

\* to_yaml that writes the label as a plain scalar
to_yaml_plainLabel(e) ==
    <<YamlLine("start", "", NoScalar),
      YamlLine("label", "", [style |-> "plain", text |-> e.label.text])>>
    \o FieldLines(e.data, DOMAIN e.data)
    \o <<YamlLine("end", "", NoScalar)>>

\* Entry.to_yaml: the document {label: data} between the explicit start and
\* end markers
to_yaml(e) ==
    <<YamlLine("start", "", NoScalar),
      YamlLine("label", "", Represent(e.label))>>
    \o FieldLines(e.data, DOMAIN e.data)
    \o <<YamlLine("end", "", NoScalar)>>

\* the field mapping that the loader builds from the field lines up to the
\* next label, end or start line
RECURSIVE LoadFields(_)
LoadFields(lines) ==
    IF lines = <<>> \/ Head(lines).kind # "field" THEN [f \in {} |-> PyStr("")]
    ELSE LET rest == LoadFields(Tail(lines))
             line == Head(lines)
         IN  [f \in DOMAIN rest \cup {line.key} |->
                 IF f \in DOMAIN rest THEN rest[f]
                 ELSE Resolve(line.scalar.style, line.scalar.text)]

\* Entry.from_yaml: one Entry per top-level key of every document
RECURSIVE from_yaml(_)
from_yaml(lines) ==
    IF lines = <<>> THEN [l \in {} |-> None]
    ELSE LET rest == from_yaml(Tail(lines))
             line == Head(lines)
         IN  IF line.kind = "label"
             THEN LET label == Resolve(line.scalar.style, line.scalar.text)
                  IN  [l \in DOMAIN rest \cup {label} |->
                          IF l \in DOMAIN rest THEN rest[l]
                          ELSE Entry(label, LoadFields(Tail(lines)))]
             ELSE rest

(***************************************************************************)
(* Entry.from_pdf: the DOI of a PDF file                                   *)
(***************************************************************************)
\* lst.count(x)
Count(lst, x) == Cardinality({i \in 1..Len(lst) : lst[i] = x})

\* the orders in which a set of strings may be iterated: the order follows
\* the hashes of the strings, which differ from one run to the next
Orders(S) ==
    {order \in [1..Cardinality(S) -> S] : {order[i] : i \in 1..Cardinality(S)} = S}

\* most_common that takes the least frequent element
most_common_least(lst, order) ==
    order[CHOOSE i \in 1..Len(order) :
             \A j \in 1..Len(order) : Count(lst, order[i]) <= Count(lst, order[j])]

\* max(set(lst), key=lst.count): the first element, in the order of the
\* iteration over the set, whose count no other element exceeds
most_common(lst, order) ==
    order[CHOOSE i \in 1..Len(order) :
             /\ \A j \in 1..Len(order) : Count(lst, order[i]) >= Count(lst, order[j])
             /\ \A j \in 1..(i - 1) : Count(lst, order[j]) < Count(lst, order[i])]

(***************************************************************************)
(* Entry.from_arxiv and _parse_arxiv: the label of an arXiv entry          *)
(***************************************************************************)
\* a child element of the metadata document: its tag and its content, the
\* words of a name or the parts of a date
Element(name, content) == [name |-> name, content |-> content]

\* name.split()[-1]
Surname(name) == name[Len(name)]

\* key.contents[0].split('-')[0]
Year(date) == date[1]

\* ArxivStep that takes every author for the first
ArxivStep_everyAuthor(st, key) ==
    IF key.name = "arxiv:doi"
    THEN [st EXCEPT !.entry = WithField(st.entry, "doi", key.content[1])]
    ELSE IF key.name = "published"
    THEN LET year == WithField(st.entry, "year", Year(key.content))
         IN  [st EXCEPT !.entry = WithField(year, "ID",
                                    IF "ID" \in DOMAIN year
                                    THEN year.ID \o Year(key.content)
                                    ELSE Year(key.content))]
    ELSE LET entry == IF "author" \notin DOMAIN st.entry
                      THEN WithField(st.entry, "author", <<>>) ELSE st.entry
             named == WithField(entry, "ID",
                                IF "ID" \in DOMAIN entry
                                THEN Surname(key.content) \o entry.ID
                                ELSE Surname(key.content))
         IN  [entry |-> WithField(named, "author",
                                  named.author \o <<key.content, " and ">>),
              first |-> FALSE]

\* one turn of the loop over the child elements in from_arxiv: the branches
\* for arxiv:doi, published and author
ArxivStep(st, key) ==
    IF key.name = "arxiv:doi"
    THEN [st EXCEPT !.entry = WithField(st.entry, "doi", key.content[1])]
    ELSE IF key.name = "published"
    THEN LET year == WithField(st.entry, "year", Year(key.content))
         IN  [st EXCEPT !.entry = WithField(year, "ID",
                                    IF "ID" \in DOMAIN year
                                    THEN year.ID \o Year(key.content)
                                    ELSE Year(key.content))]
    ELSE LET fresh == "author" \notin DOMAIN st.entry
             first == IF fresh THEN TRUE ELSE st.first
             entry == IF fresh THEN WithField(st.entry, "author", <<>>) ELSE st.entry
             named == IF first
                      THEN WithField(entry, "ID",
                                     IF "ID" \in DOMAIN entry
                                     THEN Surname(key.content) \o entry.ID
                                     ELSE Surname(key.content))
                      ELSE entry
         IN  [entry |-> WithField(named, "author",
                                  named.author \o <<key.content, " and ">>),
              first |-> FALSE]

\* the loop over the child elements
RECURSIVE ArxivLoop(_, _)
ArxivLoop(st, keys) ==
    IF keys = <<>> THEN st ELSE ArxivLoop(ArxivStep(st, Head(keys)), Tail(keys))

\* Entry.from_arxiv: the batch of the one Entry read from the document
from_arxiv(keys) ==
    LET looped == ArxivLoop([entry |-> [f \in {"archivePrefix"} |-> "arXiv"],
                             first |-> FALSE], keys).entry
        typed == WithField(looped, "ENTRYTYPE",
                           IF "doi" \in DOMAIN looped THEN "article" ELSE "unpublished")
        entry == WithField(typed, "author", SubSeq(typed.author, 1, Len(typed.author) - 1))
    IN  [l \in {entry.ID} |-> Entry(entry.ID, entry)]

\* the label that _parse_arxiv gives: the loop over the children created and
\* authors, the keyname of the first author put before the label so far
RECURSIVE _parse_arxiv(_, _)
_parse_arxiv(entry, keys) ==
    IF keys = <<>> THEN entry
    ELSE LET key == Head(keys)
         IN  IF key.name = "created"
             THEN _parse_arxiv(WithField(entry, "label",
                                  IF "label" \in DOMAIN entry
                                  THEN entry.label \o Year(key.content)
                                  ELSE Year(key.content)), Tail(keys))
             ELSE _parse_arxiv(WithField(entry, "label",
                                  IF "label" \in DOMAIN entry
                                  THEN Surname(key.content[1]) \o entry.label
                                  ELSE Surname(key.content[1])), Tail(keys))

\* `val in text`: val is a substring of text
Contains(val, text) ==
    \E i \in 0..(Len(text) - Len(val)) : SubSeq(text, i + 1, i + Len(val)) = val

\* the filter is a dict from (field, flag) to a list of substrings: a sequence
\* of items [field, flag, values] with distinct keys, in the dict's order
FilterItem(field, flag, values) == [field |-> field, flag |-> flag, values |-> values]

\* the loop over the substrings of one key, on a field that the Entry holds
RECURSIVE ValueMatches(_, _, _)
ValueMatches(text, flag, values) ==
    IF values = <<>> THEN <<>>
    ELSE <<IF ~Contains(Head(values), text) THEN ~flag ELSE flag>>
         \o ValueMatches(text, flag, Tail(values))

\* the loop over the keys of the filter: match_list, or a KeyError raised by
\* self.data[key[0]] when the loop over the substrings runs on a field that
\* the Entry does not hold
RECURSIVE MatchList(_, _)
MatchList(data, _filter) ==
    IF _filter = <<>> THEN [raised |-> FALSE, list |-> <<>>]
    ELSE LET key == Head(_filter)
             absent == key.field \notin DOMAIN data
             rest == MatchList(data, Tail(_filter))
         IN  IF absent /\ key.values # <<>>
             THEN [raised |-> TRUE, list |-> <<>>]
             ELSE [raised |-> rest.raised,
                   list |-> (IF absent THEN <<~key.flag>>
                             ELSE ValueMatches(data[key.field], key.flag, key.values))
                            \o rest.list]

\* any that is true of the empty list
any_orEmpty(match_list) == match_list = <<>> \/ \E i \in 1..Len(match_list) : match_list[i]

\* any(m for m in match_list)
any(match_list) == \E i \in 1..Len(match_list) : match_list[i]

\* all(m for m in match_list)
all(match_list) == \A i \in 1..Len(match_list) : match_list[i]

\* matches that combines with all() for OR and any() for AND
matches_swapped(e, _filter, _or) ==
    LET m == MatchList(e.data, _filter)
    IN  IF m.raised THEN [raised |-> TRUE, value |-> FALSE]
        ELSE [raised |-> FALSE, value |-> IF _or THEN all(m.list) ELSE any(m.list)]

\* Entry.matches: raised says that the call ended in a KeyError, and value is
\* what it returned otherwise
matches(e, _filter, _or) ==
    LET m == MatchList(e.data, _filter)
    IN  IF m.raised THEN [raised |-> TRUE, value |-> FALSE]
        ELSE [raised |-> FALSE, value |-> IF _or THEN any(m.list) ELSE all(m.list)]

\* the value of a mapping at a label, as a set (empty when the label is absent)
Get(m, l) == IF l \in DOMAIN m THEN {m[l]} ELSE {}

\* Database.save / Entry.to_yaml: one block {label: data} per entry
Dump(d) == [l \in DOMAIN d |-> d[l].data]

\* Database.read / from_yaml: Entry(label, data) for every block of the file;
\* a file that does not exist holds no block
Load(f) == IF f = NoFile THEN EmptyMap ELSE [l \in DOMAIN f |-> Entry(l, f[l])]

\* Database.update: new labels are inserted; a label that the Database holds
\* already keeps its Entry and is dropped from the batch (the caller tests
\* the batch for the label afterwards)
Update(d, new_entries) ==
    [l \in DOMAIN d \cup DOMAIN new_entries |->
        IF l \in DOMAIN d THEN d[l] ELSE new_entries[l]]

(***************************************************************************)
(* The commit log                                                          *)
(***************************************************************************)
\* commit identifiers as `git log --no-abbrev` prints them
Sha(n) == "c" \o ToString(n)

Commit(sha, msg, tree) == [sha |-> sha, msg |-> msg, tree |-> tree]

\* the commit a new commit gets: one identifier per commit ever made
NewSha == Sha(Len(log) + 1)

\* content of the backing file at HEAD
HeadTree == IF log = <<>> THEN NoFile ELSE log[1].tree

\* the commits of the log that are not undo-records
Changes(lines) == {i \in 1..Len(lines) : lines[i].msg[1] # "Undo"}

\* Command.git: "Auto-commit: <Name>Command"
AutoCommitMsg(name) == <<"Auto-commit:", name \o "Command">>

(***************************************************************************)
(* UndoCommand.execute: the scan of the commit log                         *)
(***************************************************************************)
\* sha, *message = commit.split(): the first and the last token of the message
message_first(commit) == commit.msg[1]

message_last(commit) == commit.msg[Len(commit.msg)]

\* Classify without the exclusion of the InitCommand auto-commit
Classify_anyAutoCommit(commit, undone_shas, force) ==
    IF message_first(commit) = "Undo" THEN "store"
    ELSE IF commit.sha \in undone_shas THEN "skip"
    ELSE IF force \/ message_first(commit) = "Auto-commit:" THEN "undo"
    ELSE "pass"

\* Classify with the InitCommand exclusion applied under --force too
Classify_forceKeepsInit(commit, undone_shas, force) ==
    IF message_first(commit) = "Undo" THEN "store"
    ELSE IF commit.sha \in undone_shas THEN "skip"
    ELSE IF (force \/ message_first(commit) = "Auto-commit:")
            /\ message_last(commit) # "InitCommand" THEN "undo"
    ELSE "pass"

\* Classify with --force tested before the undo-record test
Classify_forceFirst(commit, undone_shas, force) ==
    IF force /\ commit.sha \notin undone_shas THEN "undo"
    ELSE IF message_first(commit) = "Undo" THEN "store"
    ELSE IF commit.sha \in undone_shas THEN "skip"
    ELSE IF message_first(commit) = "Auto-commit:"
            /\ message_last(commit) # "InitCommand" THEN "undo"
    ELSE "pass"

\* Classify without the test for already undone commits
Classify_noSkip(commit, undone_shas, force) ==
    IF message_first(commit) = "Undo" THEN "store"
    ELSE IF force \/ (message_first(commit) = "Auto-commit:"
                        /\ message_last(commit) # "InitCommand") THEN "undo"
    ELSE "pass"

\* what the loop body does with one commit, given the shas stored so far:
\*   "store": the commit is an undo-record, its last token is stored
\*   "skip":  the commit was already undone
\*   "undo":  the commit is reverted and the loop is left
\*   "pass":  the commit is not eligible, the loop goes on
Classify(commit, undone_shas, force) ==
    IF message_first(commit) = "Undo" THEN "store"
    ELSE IF commit.sha \in undone_shas THEN "skip"
    ELSE IF force \/ (message_first(commit) = "Auto-commit:"
                        /\ message_last(commit) # "InitCommand") THEN "undo"
    ELSE "pass"

\* undone_shas.add(message[0]): the first token of the message is stored
StoreUndone_firstToken(undone_shas, commit) == undone_shas \cup {message_first(commit)}

\* undone_shas.add(message[-1]) without the add: the set stays as it is
StoreUndone_notStored(undone_shas, commit) == undone_shas

\* undone_shas.add(message[-1]) storing the sha of the undo-record itself
StoreUndone_ownSha(undone_shas, commit) == undone_shas \cup {commit.sha}

\* undone_shas.add(message[-1]): the last token of an undo-record is stored
StoreUndone(undone_shas, commit) == undone_shas \cup {message_last(commit)}

\* the for loop over the lines of the log, from line i on
RECURSIVE ScanLog(_, _, _, _)
ScanLog(lines, i, undone_shas, force) ==
    IF i > Len(lines)
    THEN [found |-> FALSE, idx |-> 0, sha |-> NoSha, undone_shas |-> undone_shas]
    ELSE LET commit == lines[i]
             class == Classify(commit, undone_shas, force)
         IN  IF class = "store"
             THEN ScanLog(lines, i + 1, StoreUndone(undone_shas, commit), force)
             ELSE IF class = "undo"
             THEN [found |-> TRUE, idx |-> i, sha |-> commit.sha,
                   undone_shas |-> undone_shas]
             ELSE ScanLog(lines, i + 1, undone_shas, force)

(***************************************************************************)
(* git revert --no-commit <sha>, on label mappings: the change from the    *)
(* commit's content C back to its parent's content P is applied to the     *)
(* working content W.  A commit that created the backing file has a parent *)
(* without it: its revert deletes the file.                                *)
(***************************************************************************)
\* content of the backing file at the parent of the i-th commit of the log
ParentTree(lines, i) == IF i < Len(lines) THEN lines[i + 1].tree ELSE NoFile

\* the revert changes nothing, or the working content is what the commit
\* recorded, or it is what the revert restores
RevertWholeFile(W, C, P) == C = P \/ W = C \/ W = P

\* both the working content and the revert change what the commit recorded
RevertConflict(W, C, P) ==
    /\ ~RevertWholeFile(W, C, P)
    /\ \/ NoFile \in {W, C, P}
       \/ \E l \in Labels : /\ Get(W, l) # Get(C, l)
                            /\ Get(C, l) # Get(P, l)
                            /\ Get(W, l) # Get(P, l)

RevertValue(W, C, P, l) == IF Get(W, l) = Get(C, l) THEN Get(P, l) ELSE Get(W, l)

RevertTree(W, C, P) ==
    IF C = P \/ W = P THEN W
    ELSE IF W = C THEN P
    ELSE [l \in {k \in Labels : RevertValue(W, C, P, k) # {}} |->
             CHOOSE v \in RevertValue(W, C, P, l) : TRUE]

(***************************************************************************)
(* The record of a command invocation                                      *)
(***************************************************************************)
\* the Add invocation right before it, if any: the Database it started
\* with, whether the backing file then matched the newest commit and the
\* Database the backing file, and the labels it reported
NoPrevious == [add |-> FALSE, predb |-> EmptyMap, clean |-> TRUE, new_labels |-> {}]

\* the successive Undo invocations without --force up to this one: the log
\* that the first of them started with, its eligible commits, newest first,
\* and what each invocation did
NoRun == [lines |-> <<>>, eligible |-> <<>>, attempts |-> <<>>]

NoCommand ==
    [cmd |-> "none", force |-> FALSE, status |-> "returned", logs |-> {},
     found |-> FALSE, sha |-> NoSha, idx |-> 0, undone_shas |-> {},
     revert_rc |-> 0, returncode |-> 0, reloaded |-> FALSE,
     source |-> {}, label |-> None, path |-> None, tags |-> <<>>,
     new_labels |-> {}, merged |-> EmptyMap, edited |-> FALSE,
     entry |-> Entry(None, EmptyMap), filter |-> <<>>, any |-> FALSE,
     text |-> <<>>, batch |-> EmptyMap,
     dois |-> <<>>, doi |-> None,
     authors |-> <<>>,
     args |-> <<>>, out |-> None, config |-> EmptyMap, platform |-> None,
     printed |-> {}, returned |-> None, launched |-> <<>>,
     result |-> [raised |-> FALSE, value |-> FALSE],
     steps |-> <<>>, prefile |-> EmptyMap, predb |-> EmptyMap,
     clean |-> TRUE, prev |-> NoPrevious, run |-> NoRun]

\* a command that starts in the current state; clean says that the backing
\* file matches the newest commit and the Database matches the backing file
Started(cmd) ==
    [NoCommand EXCEPT !.cmd = cmd, !.prefile = file, !.predb = db,
                      !.clean = (file = HeadTree /\ db = Load(file)),
                      !.prev = IF last.cmd = "add" /\ last.steps # <<>>
                               THEN [add |-> TRUE, predb |-> last.predb,
                                     clean |-> last.clean,
                                     new_labels |-> last.new_labels]
                               ELSE NoPrevious]

\* the commit log the last command started with: no command removes a commit
\* and a command adds at most one
PreLog == IF "commit" \in {last.steps[i] : i \in 1..Len(last.steps)} /\ last.returncode = 0
          THEN Tail(log) ELSE log

(***************************************************************************)
(* UndoCommand.execute                                                     *)
(***************************************************************************)
MsgTrackingDisabled == "You must enable coBib's git-tracking"

MsgNotInitialized == "You have configured, but not initialized coBib's git-tracking."

MsgUnsuccessful == "Undo was unsuccessful."

MsgNothingToUndo == "Could not find a commit to undo. Please commit something first!"

\* exit status of the shell command line "revert ; commit": that of its last command
ShellStatus(revert_rc, commit_rc) == commit_rc

\* AfterScan without the sys.exit(1) of the else clause
AfterScan_noExit(found, returncode) ==
    IF ~found
    THEN [status |-> "returned", logs |-> {<<"WARNING", MsgNothingToUndo>>}, reloaded |-> FALSE]
    ELSE IF returncode # 0
    THEN [status |-> "returned", logs |-> {<<"ERROR", MsgUnsuccessful>>}, reloaded |-> FALSE]
    ELSE [status |-> "returned", logs |-> {}, reloaded |-> TRUE]

\* AfterScan without the break after a failed revert/commit sequence: the
\* loop runs out and its else clause is taken
AfterScan_noBreak(found, returncode) ==
    IF ~found
    THEN [status |-> "exit1", logs |-> {<<"WARNING", MsgNothingToUndo>>}, reloaded |-> FALSE]
    ELSE IF returncode # 0
    THEN [status |-> "exit1",
          logs |-> {<<"ERROR", MsgUnsuccessful>>, <<"WARNING", MsgNothingToUndo>>},
          reloaded |-> FALSE]
    ELSE [status |-> "returned", logs |-> {}, reloaded |-> TRUE]

\* AfterScan without Database().read() after a successful Undo
AfterScan_noRead(found, returncode) ==
    IF ~found
    THEN [status |-> "exit1", logs |-> {<<"WARNING", MsgNothingToUndo>>}, reloaded |-> FALSE]
    ELSE IF returncode # 0
    THEN [status |-> "returned", logs |-> {<<"ERROR", MsgUnsuccessful>>}, reloaded |-> FALSE]
    ELSE [status |-> "returned", logs |-> {}, reloaded |-> FALSE]

\* what follows the scan: the branch on undo.returncode, the break and the
\* else clause of the for loop
AfterScan(found, returncode) ==
    IF ~found
    THEN [status |-> "exit1", logs |-> {<<"WARNING", MsgNothingToUndo>>}, reloaded |-> FALSE]
    ELSE IF returncode # 0
    THEN [status |-> "returned", logs |-> {<<"ERROR", MsgUnsuccessful>>}, reloaded |-> FALSE]
    ELSE [status |-> "returned", logs |-> {}, reloaded |-> TRUE]

\* Precondition without the check for the .git directory
Precondition_noInitCheck(tracked, initialized) ==
    IF ~tracked THEN MsgTrackingDisabled ELSE None

\* the checks made before the log is read: the message of the failing one
Precondition(tracked, initialized) ==
    IF ~tracked THEN MsgTrackingDisabled
    ELSE IF ~initialized THEN MsgNotInitialized
    ELSE None

\* the shas of the commits of a log that an Undo without --force may revert,
\* newest first
RECURSIVE EligibleFrom(_, _)
EligibleFrom(lines, i) ==
    IF i > Len(lines) THEN <<>>
    ELSE (IF /\ lines[i].msg[1] = "Auto-commit:"
             /\ lines[i].msg[Len(lines[i].msg)] # "InitCommand"
             /\ \A j \in 1..Len(lines) :
                   lines[j].msg[1] = "Undo" => lines[j].msg[Len(lines[j].msg)] # lines[i].sha
          THEN <<lines[i].sha>> ELSE <<>>) \o EligibleFrom(lines, i + 1)

\* what one Undo invocation did: whether it found a commit and which, whether
\* its revert and commit steps both exited 0, whether a step failed for a
\* reason from outside, and how it ended
Attempt(found, sha, succeeded, outside, status) ==
    [found |-> found, sha |-> sha, succeeded |-> succeeded,
     outside |-> outside, status |-> status]

\* the run that an Undo without --force belongs to: the run of the Undo right
\* before it when that one was without --force and succeeded, or else a new
\* run that starts in the current state
CurrentRun ==
    IF /\ last.cmd = "undo" /\ ~last.force
       /\ last.run.attempts # <<>>
       /\ last.run.attempts[Len(last.run.attempts)].succeeded
    THEN last.run
    ELSE [lines |-> log, eligible |-> EligibleFrom(log, 1), attempts |-> <<>>]

\* the run with one more invocation
Extended(force, attempt) ==
    IF force THEN NoRun
    ELSE [CurrentRun EXCEPT !.attempts = Append(CurrentRun.attempts, attempt)]

UndoCommand(force, revert_rc, commit_rc) ==
    /\ UNCHANGED <<git_tracked, git_init>>
    /\ IF Precondition(git_tracked, git_init) # None
       THEN /\ revert_rc = 0 /\ commit_rc = 0
            /\ last' = [Started("undo") EXCEPT !.force = force,
                            !.logs = {<<"ERROR", Precondition(git_tracked, git_init)>>}]
            /\ UNCHANGED <<log, file, db, reverts, git_failures>>
       ELSE \E scan \in {ScanLog(log, 1, {}, force)} :
            \E returncode \in {ShellStatus(revert_rc, commit_rc)} :
            \E after \in {AfterScan(scan.found, returncode)} :
            \E started \in {[Started("undo") EXCEPT !.force = force,
                                !.found = scan.found, !.sha = scan.sha, !.idx = scan.idx,
                                !.undone_shas = scan.undone_shas,
                                !.status = after.status, !.logs = after.logs,
                                !.reloaded = after.reloaded]} :
                IF ~scan.found
                THEN /\ revert_rc = 0 /\ commit_rc = 0
                     /\ last' = [started EXCEPT !.run =
                                    Extended(force, Attempt(FALSE, NoSha, FALSE, FALSE,
                                                            after.status))]
                     /\ UNCHANGED <<log, file, db, reverts, git_failures>>
                ELSE LET W == file
                         C == log[scan.idx].tree
                         P == ParentTree(log, scan.idx)
                         conflict == RevertConflict(W, C, P)
                         \* the content that the commit step finds staged
                         index == IF revert_rc = 0 THEN RevertTree(W, C, P) ELSE W
                         staged == index # HeadTree
                     IN  \* a conflict fails the revert, and the commit after it; the
                         \* backing file keeps its entries (the conflict markers that
                         \* git writes into it are not modelled)
                         /\ conflict => (revert_rc # 0 /\ commit_rc # 0)
                         \* with nothing staged there is nothing to commit
                         /\ ~staged => commit_rc # 0
                         \* the other failures come from outside
                         /\ git_failures' = git_failures
                                + (IF revert_rc # 0 /\ ~conflict THEN 1 ELSE 0)
                                + (IF commit_rc # 0 /\ staged THEN 1 ELSE 0)
                         /\ git_failures' <= MaxGitFailures
                         /\ file' = index
                         /\ log' = IF commit_rc = 0
                                   THEN <<Commit(NewSha, <<"Undo", scan.sha>>, index)>> \o log
                                   ELSE log
                         /\ db' = IF after.reloaded THEN Load(file') ELSE db
                         /\ reverts' = IF revert_rc = 0 /\ returncode = 0
                                       THEN Append(reverts, scan.sha) ELSE reverts
                         /\ last' = [started EXCEPT
                                        !.revert_rc = revert_rc,
                                        !.returncode = returncode,
                                        !.steps = <<"revert", "commit">>,
                                        !.run = Extended(force,
                                                   Attempt(TRUE, scan.sha,
                                                           revert_rc = 0 /\ returncode = 0,
                                                           git_failures' > git_failures,
                                                           after.status))]

(***************************************************************************)
(* AddCommand.execute                                                      *)
(***************************************************************************)
\* the warning for a manual creation under a label held already: two lines
\* (the message sets the command in backquotes, written as apostrophes here)
MsgAlreadyExists(label) ==
    "You tried to add a new entry '" \o label \o "' which already exists!\n"
        \o "Please use 'cobib edit " \o label \o "' instead!"

MsgNoInput == "Neither an input to parse nor a label for manual creation specified!"

\* a source names the records it holds; the empty source stands for no
\* source flag given
Sources == {{}, {"a"}, {"a", "b"}}

\* a source that its parser cannot parse
Malformed == {"<malformed>"}

\* the --label argument, None when it is not given
LabelArgs == {None, "b"}

\* the --file argument, None when it is not given
FileArgs == {None, "f.pdf"}

\* the positional tags: none, [tag, tag2] and [+a, "b "]
TagArgs == {<<>>, << <<"t", "a", "g">>, <<"t", "a", "g", "2">> >>,
            << <<"+", "a">>, <<"b", " ">> >>}

\* cls().parse(string): one Entry per record, keyed by the record's label
Parse(source) ==
    [l \in source |-> Entry(l, [ID |-> l, ENTRYTYPE |-> "article", title |-> "T"])]

\* ManualBatch that starts from a record with a title
ManualBatch_parsed(label) == Parse({label})

\* the batch of a manual creation
ManualBatch(label) ==
    [l \in {label} |-> Entry(label, [ID |-> label, ENTRYTYPE |-> default_entry_type])]

\* Relabel that re-keys the sole entry and leaves its label as it was
Relabel_keyOnly(new_entries, label) ==
    [l \in {label} |-> new_entries[CHOOSE k \in DOMAIN new_entries : TRUE]]

\* the label override: set_label on the sole entry, re-keyed under the label
Relabel(new_entries, label) ==
    [l \in {label} |-> set_label(new_entries[CHOOSE k \in DOMAIN new_entries : TRUE], label)]

\* the file override: set_file on the sole entry
WithFile(new_entries, path) == [l \in DOMAIN new_entries |-> set_file(new_entries[l], path)]

\* the tag override: set_tags on the sole entry
WithTags(new_entries, tags) == [l \in DOMAIN new_entries |-> set_tags(new_entries[l], tags)]

\* the batch as Database.update leaves it: without the labels that the
\* Database held already
Remaining(d, new_entries) ==
    [l \in DOMAIN new_entries \ DOMAIN d |-> new_entries[l]]

\* EditCommand: the user leaves the entry as it is, or fills in a field
Edited(d, label, fills_in) ==
    IF fills_in
    THEN [l \in DOMAIN d |->
            IF l = label
            THEN [label |-> d[l].label, data |-> WithField(d[l].data, "title", "E")]
            ELSE d[l]]
    ELSE d

\* EditFlow that edits whenever the entry is created by hand
EditFlow_always(manual, label, new_entries, merged) == manual

\* EditFlow that looks for the label in the Database
EditFlow_inDatabase(manual, label, new_entries, merged) ==
    manual /\ label \in DOMAIN merged

\* whether EditCommand is run: for a manual creation whose label is still in
\* the batch after the update
EditFlow(manual, label, new_entries, merged) ==
    manual /\ label \in DOMAIN new_entries

\* Overrides that merges a batch of any size
Overrides_unchecked(source, label, path, tags) == "ok"

\* the assertions of the overrides: each requires a batch of one entry
Overrides(source, label, path, tags) ==
    IF (label # None \/ path # None \/ tags # <<>>) /\ Cardinality(source) > 1
    THEN "assert" ELSE "ok"

\* `if not args`: the argument list is empty
NoArgs(source, label, path, tags) ==
    source = {} /\ label = None /\ path = None /\ tags = <<>>

\* SelectSource that takes whatever the parser is given for a record
SelectSource_noParseError(source, label) ==
    IF source = {} /\ label = None THEN "error" ELSE "ok"

\* SelectSource that goes on with an empty batch
SelectSource_noReturn(source, label) ==
    IF source = Malformed THEN "raised" ELSE "ok"

\* the choice of the source: a parser failure propagates, no source and no
\* label is an error
SelectSource(source, label) ==
    IF source = Malformed THEN "raised"
    ELSE IF source = {} /\ label = None THEN "error"
    ELSE "ok"

\* AddSteps that commits before the Database is saved
AddSteps_commitFirst(edit, commit) ==
    <<"update">> \o (IF edit THEN <<"edit">> ELSE <<>>)
                 \o (IF commit THEN <<"commit">> ELSE <<>>)
                 \o <<"save", "report">>

\* the steps of an Add past its overrides, in their order: bib.update, the
\* edit of a manual entry, bib.save, self.git and the report of the labels
AddSteps(edit, commit) ==
    <<"update">> \o (IF edit THEN <<"edit">> ELSE <<>>)
                 \o <<"save">>
                 \o (IF commit THEN <<"commit">> ELSE <<>>)
                 \o <<"report">>

AddCommand(source, label, path, tags, fills_in) ==
    /\ Cardinality(Changes(log)) < MaxCommits
    /\ UNCHANGED <<git_tracked, git_init, reverts, git_failures>>
    /\ LET started == [Started("add") EXCEPT !.source = source, !.label = label,
                                             !.path = path, !.tags = tags]
           manual == source = {} /\ label # None
           batch == IF source # {} THEN Parse(source)
                    ELSE IF manual THEN ManualBatch(label) ELSE EmptyMap
       IN  IF NoArgs(source, label, path, tags)
           THEN /\ ~fills_in
                /\ last' = [started EXCEPT !.status = "exit", !.returncode = 1,
                                           !.logs = {<<"USAGE", "add">>}]
                /\ UNCHANGED <<log, file, db>>
           ELSE IF SelectSource(source, label) = "raised"
           THEN /\ ~fills_in
                /\ last' = [started EXCEPT !.status = "raised"]
                /\ UNCHANGED <<log, file, db>>
           ELSE IF SelectSource(source, label) = "error"
           THEN /\ ~fills_in
                /\ last' = [started EXCEPT !.logs = {<<"ERROR", MsgNoInput>>}]
                /\ UNCHANGED <<log, file, db>>
           ELSE IF Overrides(source, label, path, tags) = "assert"
           THEN /\ ~fills_in
                /\ last' = [started EXCEPT !.status = "assert"]
                /\ UNCHANGED <<log, file, db>>
           ELSE LET relabelled == IF label # None THEN Relabel(batch, label) ELSE batch
                    filed == IF path # None THEN WithFile(relabelled, path) ELSE relabelled
                    overridden == IF tags # <<>> THEN WithTags(filed, tags) ELSE filed
                    new_entries == Remaining(db, overridden)
                    merged == Update(db, overridden)
                    edit == EditFlow(manual, label, new_entries, merged)
                    saved == IF edit THEN Edited(merged, label, fills_in) ELSE merged
                    commit == git_tracked /\ git_init /\ Dump(saved) # HeadTree
                IN  /\ ~edit => ~fills_in
                    /\ db' = saved
                    /\ file' = Dump(db')
                    /\ log' = IF commit
                              THEN <<Commit(NewSha, AutoCommitMsg("Add"), file')>> \o log
                              ELSE log
                    /\ last' = [started EXCEPT
                                  !.new_labels = DOMAIN new_entries,
                                  !.merged = merged,
                                  !.edited = edit,
                                  !.logs = IF manual /\ ~edit
                                           THEN {<<"WARNING", MsgAlreadyExists(label)>>}
                                           ELSE {},
                                  !.steps = AddSteps(edit, commit)]

(***************************************************************************)
(* OpenCommand.execute                                                     *)
(***************************************************************************)
MsgNoFile == "Error: There is no file associated with this entry."

MsgNoEntry(label) == "Error: No entry with the label '" \o label \o "' could be found."

\* a local name that no statement has bound yet
Unbound == "<unbound>"

\* the opener that the configuration names, or else that of the platform
ConfiguredOpener(config, platform) ==
    LET opener == IF "DATABASE" \in DOMAIN config /\ "open" \in DOMAIN config.DATABASE
                  THEN config.DATABASE.open ELSE None
    IN  IF opener = None
        THEN (IF platform = "linux" THEN "xdg-open" ELSE "open")
        ELSE opener

\* the outcome of a call of execute
Outcome(status, returncode, printed, returned, launched) ==
    [status |-> status, returncode |-> returncode, printed |-> printed,
     returned |-> returned, launched |-> launched]

\* Popen([opener, file]): building the argument list reads the local name
\* opener, which raises UnboundLocalError when nothing has bound it
Popen(opener, path) ==
    IF opener = Unbound
    THEN Outcome("raised", 0, {}, None, <<>>)
    ELSE Outcome("returned", 0, {}, None, <<opener, path>>)

\* OpenCommand.execute; out is None for a call from the TUI. The statements
\* that bind opener stand inside the block for an Entry without a file, after
\* its return and its sys.exit, so no call reaches them
OpenCommand(args, out, config, platform) ==
    IF args = <<>>
    THEN Outcome("exit", 1, {<<"stderr", "usage">>}, None, <<>>)
    ELSE IF args[1] \notin DOMAIN db
    THEN Outcome("returned", 0, {<<"stdout", MsgNoEntry(args[1])>>}, None, <<>>)
    ELSE LET entry == db[args[1]]
         IN  IF "file" \notin DOMAIN entry.data \/ entry.data.file = None
             THEN IF out = None
                  THEN Outcome("returned", 0, {}, MsgNoFile, <<>>)
                  ELSE Outcome("exit", 1, {<<out, MsgNoFile>>}, None, <<>>)
             ELSE Popen(Unbound, entry.data.file)

(***************************************************************************)
(* The user                                                                *)
(***************************************************************************)
UserMessages == {<<"Manual", "edit">>, <<"Undo", "c2">>}

UserData(l) == [ID |-> l, ENTRYTYPE |-> "book"]

\* the user edits the backing file by hand, commits the change with a message
\* of their own and starts coBib anew
UserCommit(l, msg) ==
    /\ git_init
    /\ Cardinality(Changes(log)) < MaxCommits
    /\ Cardinality({i \in 1..Len(log) : log[i].msg \in UserMessages}) < MaxUserCommits
    /\ file' = LET f == IF file = NoFile THEN EmptyMap ELSE file
               IN  IF l \notin DOMAIN f
                   THEN [k \in DOMAIN f \cup {l} |-> IF k = l THEN UserData(l) ELSE f[k]]
                   ELSE [k \in DOMAIN f \ {l} |-> f[k]]
    /\ file' # HeadTree
    /\ log' = <<Commit(NewSha, msg, file')>> \o log
    /\ db' = Load(file')
    /\ last' = [NoCommand EXCEPT !.cmd = "user"]
    /\ UNCHANGED <<git_tracked, git_init, reverts, git_failures>>

\* a new coBib process loads the Database from the backing file
Restart ==
    /\ db # Load(file)
    /\ db' = Load(file)
    /\ last' = [NoCommand EXCEPT !.cmd = "restart"]
    /\ UNCHANGED <<git_tracked, git_init, log, file, reverts, git_failures>>

(***************************************************************************)
(* Specification                                                           *)
(***************************************************************************)
\* the state after setup: tracking configured or not, the directory under
\* version control (by `init --git`, which commits) or not, an empty database
Init ==
    /\ git_tracked \in BOOLEAN
    /\ git_init \in BOOLEAN
    /\ file = EmptyMap
    /\ db = Load(file)
    /\ log = IF git_init THEN <<Commit(Sha(1), AutoCommitMsg("Init"), EmptyMap)>> ELSE <<>>
    /\ last = NoCommand
    /\ reverts = <<>>
    /\ git_failures = 0

\* the state after `git init` by hand, tracking configured, and a first Add:
\* the log starts with the auto-commit of an AddCommand
InitByHand ==
    /\ git_tracked = TRUE
    /\ git_init = TRUE
    /\ db = Update(EmptyMap, Parse({"a"}))
    /\ file = Dump(db)
    /\ log = <<Commit(Sha(1), AutoCommitMsg("Add"), file)>>
    /\ last = NoCommand
    /\ reverts = <<>>
    /\ git_failures = 0

Undo == \E force \in BOOLEAN, revert_rc \in {0, 1}, commit_rc \in {0, 1} :
            UndoCommand(force, revert_rc, commit_rc)

Add == \E source \in Sources, label \in LabelArgs :
           AddCommand(source, label, None, <<>>, FALSE)

\* an Add with any of its arguments
AddAny == \E source \in Sources \cup {Malformed}, label \in LabelArgs,
             path \in FileArgs, tags \in TagArgs :
             \E fills_in \in IF source = {} /\ label # None THEN BOOLEAN ELSE {FALSE} :
                 AddCommand(source, label, path, tags, fills_in)

User == \E l \in Labels, msg \in UserMessages : UserCommit(l, msg)

Next == Undo \/ Add \/ User \/ Restart

Spec == Init /\ [][Next]_vars

SpecByHand == InitByHand /\ [][Next]_vars

\* the Add command alone, with all its arguments
NextAdd == AddAny

\* the state after `init --git`, with tracking configured or not
InitAdd == Init /\ git_init

SpecAdd == InitAdd /\ [][NextAdd]_vars

\* the longest filter
MaxFilterLen == 2

\* the author and year fields of an Entry: absent, or one text
Authors == {{}, {<<"E", "K">>}, {<<"K", "E">>}}

Years == {{}, {<<"1">>}}

\* the entries that matches is applied to
MatchEntries ==
    {Entry("a", [f \in {"ID", "ENTRYTYPE"}
                       \cup (IF author = {} THEN {} ELSE {"author"})
                       \cup (IF year = {} THEN {} ELSE {"year"}) |->
                    CASE f = "ID" -> "a"
                      [] f = "ENTRYTYPE" -> "article"
                      [] f = "author" -> CHOOSE t \in author : TRUE
                      [] f = "year" -> CHOOSE t \in year : TRUE])
        : author \in Authors, year \in Years}

\* the lists of substrings of a filter key
ValueLists == {<<>>, << <<"E">> >>, << <<"K", "E">> >>, << <<"1">> >>,
               << <<"E">>, <<"K", "E">> >>, << <<"K", "E">>, <<"1">> >>}

FilterItems ==
    {FilterItem(field, flag, values) :
        field \in {"author", "year"}, flag \in BOOLEAN, values \in ValueLists}

\* the filters: up to MaxFilterLen items with distinct keys
Filters ==
    {f \in UNION {[1..n -> FilterItems] : n \in 0..MaxFilterLen} :
        \A i, j \in 1..Len(f) :
            (f[i].field = f[j].field /\ f[i].flag = f[j].flag) => i = j}

\* an Entry, a filter and the flag of the OR combination are given
InitMatches ==
    /\ git_tracked = FALSE
    /\ git_init = FALSE
    /\ file = EmptyMap
    /\ db = EmptyMap
    /\ log = <<>>
    /\ reverts = <<>>
    /\ git_failures = 0
    /\ \E e \in MatchEntries, _filter \in Filters, _or \in BOOLEAN :
          last = [NoCommand EXCEPT !.cmd = "filter", !.entry = e,
                                   !.filter = _filter, !.any = _or]

\* the call e.matches(_filter, _or)
Matches ==
    /\ last.cmd = "filter"
    /\ LET result == matches(last.entry, last.filter, last.any)
       IN  last' = [last EXCEPT !.cmd = "matches",
                                !.status = IF result.raised THEN "raised" ELSE "returned",
                                !.result = result]
    /\ UNCHANGED <<git_tracked, git_init, log, file, db, reverts, git_failures>>

SpecMatches == InitMatches /\ [][Matches]_vars

\* the longest tag token and the longest list of tags
MaxTokenLen == 2

MaxTags == 2

\* the characters of a tag token
TagChars == {"+", "a", " "}

\* the tag tokens: up to MaxTokenLen characters
Tokens == UNION {[1..n -> TagChars] : n \in 1..MaxTokenLen}

\* the non-empty lists of tags
TagLists == UNION {[1..n -> Tokens] : n \in 1..MaxTags}

\* an Entry and a list of tags are given
InitTags ==
    /\ git_tracked = FALSE
    /\ git_init = FALSE
    /\ file = EmptyMap
    /\ db = EmptyMap
    /\ log = <<>>
    /\ reverts = <<>>
    /\ git_failures = 0
    /\ \E tags \in TagLists :
          last = [NoCommand EXCEPT !.cmd = "tags", !.tags = tags,
                                   !.entry = Entry("a", [ID |-> "a", ENTRYTYPE |-> "article"])]

\* the call e.set_tags(tags)
SetTags ==
    /\ last.cmd = "tags"
    /\ last' = [last EXCEPT !.cmd = "set_tags", !.entry = set_tags(last.entry, last.tags)]
    /\ UNCHANGED <<git_tracked, git_init, log, file, db, reverts, git_failures>>

SpecTags == InitTags /\ [][SetTags]_vars

\* the values of a field: strings, among them some that read as an integer,
\* a boolean, a null or a mapping, and an integer
Scalars == {PyStr("Einstein"), PyStr("1905"), PyStr("true"), PyStr(""),
            PyStr("a: b"), PyInt("1905")}

\* a field: absent, or one value
Optional == {{}} \cup {{v} : v \in Scalars}

\* the entries that are written and read back
YamlEntries ==
    {Entry(label, [f \in {"ID", "ENTRYTYPE"}
                         \cup (IF year = {} THEN {} ELSE {"year"})
                         \cup (IF title = {} THEN {} ELSE {"title"}) |->
                      CASE f = "ID" -> label
                        [] f = "ENTRYTYPE" -> PyStr("article")
                        [] f = "year" -> CHOOSE v \in year : TRUE
                        [] f = "title" -> CHOOSE v \in title : TRUE])
        : label \in {PyStr("a"), PyStr("1905")}, year \in Optional, title \in Optional}

\* an Entry is given
InitYaml ==
    /\ git_tracked = FALSE
    /\ git_init = FALSE
    /\ file = EmptyMap
    /\ db = EmptyMap
    /\ log = <<>>
    /\ reverts = <<>>
    /\ git_failures = 0
    /\ \E e \in YamlEntries : last = [NoCommand EXCEPT !.cmd = "entry", !.entry = e]

\* the call Entry.from_yaml(e.to_yaml())
RoundTrip ==
    /\ last.cmd = "entry"
    /\ last' = [last EXCEPT !.cmd = "from_yaml", !.text = to_yaml(last.entry),
                            !.batch = from_yaml(to_yaml(last.entry))]
    /\ UNCHANGED <<git_tracked, git_init, log, file, db, reverts, git_failures>>

SpecYaml == InitYaml /\ [][RoundTrip]_vars

\* the most matches of the DOI pattern in the text of a PDF file
MaxMatches == 4

\* the DOIs that the text of a PDF file may hold
DOIs == {"10.1/a", "10.1/b", "10.1/c"}

\* re.findall(DOI_REGEX, text): the matches in the order of the text
MatchLists == UNION {[1..n -> DOIs] : n \in 0..MaxMatches}

\* the matches of the pattern in the text of a PDF file are given
InitPdf ==
    /\ git_tracked = FALSE
    /\ git_init = FALSE
    /\ file = EmptyMap
    /\ db = EmptyMap
    /\ log = <<>>
    /\ reverts = <<>>
    /\ git_failures = 0
    /\ \E lst \in MatchLists : last = [NoCommand EXCEPT !.cmd = "pdf", !.dois = lst]

\* Entry.from_pdf: the most common match is handed to from_doi; max() of an
\* empty set raises a ValueError
FromPdf ==
    /\ last.cmd = "pdf"
    /\ \E order \in Orders({last.dois[i] : i \in 1..Len(last.dois)}) :
          last' = IF last.dois = <<>>
                  THEN [last EXCEPT !.cmd = "from_pdf", !.status = "raised"]
                  ELSE [last EXCEPT !.cmd = "from_pdf",
                                    !.doi = most_common(last.dois, order)]
    /\ UNCHANGED <<git_tracked, git_init, log, file, db, reverts, git_failures>>

SpecPdf == InitPdf /\ [][FromPdf]_vars

\* the most authors of an arXiv entry
MaxAuthors == 3

\* the names of the authors, word by word
Names == {<<"A", "Einstein">>, <<"Knuth">>, <<"L", "van", "Beethoven">>}

\* the date of publication, part by part
Published == <<"1905", "06", "30">>

\* the lists of authors
AuthorLists == UNION {[1..n -> Names] : n \in 1..MaxAuthors}

\* the child elements of the Atom entry: the authors in their order, the
\* published element after the first `at` of them, and a DOI in front or not
Feed(authors, at, doi) ==
    (IF doi THEN <<Element("arxiv:doi", <<"10.1/a">>)>> ELSE <<>>)
    \o [i \in 1..at |-> Element("author", authors[i])]
    \o <<Element("published", Published)>>
    \o [i \in 1..(Len(authors) - at) |-> Element("author", authors[at + i])]

\* the child elements of the OAI record: created before or after the authors
Record(authors, at) ==
    IF at = 0
    THEN <<Element("created", Published), Element("authors", authors)>>
    ELSE <<Element("authors", authors), Element("created", Published)>>

\* the metadata of an arXiv entry are given
InitArxiv ==
    /\ git_tracked = FALSE
    /\ git_init = FALSE
    /\ file = EmptyMap
    /\ db = EmptyMap
    /\ log = <<>>
    /\ reverts = <<>>
    /\ git_failures = 0
    /\ \E authors \in AuthorLists, doi \in BOOLEAN :
       \E at \in 0..Len(authors) :
          last = [NoCommand EXCEPT !.cmd = "arxiv", !.authors = authors,
                                   !.text = Feed(authors, at, doi)]

\* the call Entry.from_arxiv on the document, and _parse_arxiv on the record
\* with the same authors
FromArxiv ==
    /\ last.cmd = "arxiv"
    /\ last' = [last EXCEPT
                  !.cmd = "from_arxiv",
                  !.batch = from_arxiv(last.text),
                  !.entry = LET at == IF last.text[Len(last.text)].name = "published"
                                      THEN 1 ELSE 0
                                parsed == _parse_arxiv([f \in {"archivePrefix"} |-> "arXiv"],
                                                       Record(last.authors, at))
                            IN  Entry(parsed.label, parsed)]
    /\ UNCHANGED <<git_tracked, git_init, log, file, db, reverts, git_failures>>

SpecArxiv == InitArxiv /\ [][FromArxiv]_vars

\* the labels that an open command names
OpenLabels == {"a", "b", "zz"}

\* the Entries of a label: without a file field, with a null one, with a file
OpenEntries(l) ==
    {Entry(l, [f \in {"ID"} |-> l]),
     Entry(l, WithField([f \in {"ID"} |-> l], "file", None)),
     Entry(l, WithField([f \in {"ID"} |-> l], "file", "/cwd/" \o l \o ".pdf"))}

\* the Databases over the labels a and b
OpenDatabases ==
    UNION {{d \in [S -> UNION {OpenEntries(l) : l \in S}] : \A l \in S : d[l].label = l}
           : S \in SUBSET {"a", "b"}}

\* the configuration: without a DATABASE section, with one that names no
\* opener, with one that names an opener
Configs ==
    {EmptyMap,
     [s \in {"DATABASE"} |-> [f \in {"file"} |-> "db.yaml"]],
     [s \in {"DATABASE"} |-> WithField([f \in {"file"} |-> "db.yaml"], "open", "zathura")]}

\* sys.platform
Platforms == {"linux", "darwin"}

\* a Database, a configuration and a platform are given
InitOpen ==
    /\ git_tracked = FALSE
    /\ git_init = FALSE
    /\ file = EmptyMap
    /\ log = <<>>
    /\ reverts = <<>>
    /\ git_failures = 0
    /\ db \in OpenDatabases
    /\ \E config \in Configs, platform \in Platforms :
          last = [NoCommand EXCEPT !.cmd = "config", !.config = config,
                                   !.platform = platform]

\* the open command, from the command line (out is stdout) or from the TUI
Open ==
    /\ last.cmd = "config"
    /\ \E args \in {<<>>} \cup {<<l>> : l \in OpenLabels}, out \in {None, "stdout"} :
          LET outcome == OpenCommand(args, out, last.config, last.platform)
          IN  last' = [last EXCEPT
                         !.cmd = "open", !.args = args, !.out = out,
                         !.status = outcome.status,
                         !.returncode = outcome.returncode,
                         !.printed = outcome.printed,
                         !.returned = outcome.returned,
                         !.launched = outcome.launched]
    /\ UNCHANGED <<git_tracked, git_init, log, file, db, reverts, git_failures>>

SpecOpen == InitOpen /\ [][Open]_vars

(***************************************************************************)
(* Properties of the Undo command                                          *)
(***************************************************************************)
\* a commit whose message starts with "Undo"
IsUndoRecord(commit) == commit.msg[1] = "Undo"

\* the identifiers that the undo-records among the commits S of a log name
UndoTargets(lines, S) ==
    {lines[j].msg[Len(lines[j].msg)] : j \in {k \in S : IsUndoRecord(lines[k])}}

\* the i-th commit is the target of a newer undo-record
AlreadyUndone(lines, i) == lines[i].sha \in UndoTargets(lines, 1..(i - 1))

\* an auto-commit whose command is not InitCommand
AutoNotInit(commit) ==
    commit.msg[1] = "Auto-commit:" /\ commit.msg[Len(commit.msg)] # "InitCommand"

\* the i-th commit may be reverted
Revertible(lines, i, force) ==
    /\ ~IsUndoRecord(lines[i])
    /\ ~AlreadyUndone(lines, i)
    /\ force \/ AutoNotInit(lines[i])

\* the i-th commit is the newest one that may be reverted
NewestRevertible(lines, i, force) ==
    /\ i \in 1..Len(lines)
    /\ Revertible(lines, i, force)
    /\ \A j \in 1..(i - 1) : ~Revertible(lines, j, force)

\* the last command was an Undo that got past its precondition checks
UndoRan == last.cmd = "undo" /\ git_tracked /\ git_init

\* the last command was an Undo whose revert and commit steps both succeeded
UndoSucceeded ==
    last.cmd = "undo" /\ last.found /\ last.revert_rc = 0 /\ last.returncode = 0

\* the last command reverted the i-th commit of the log it started with, and
\* nothing else: one revert, one new commit "Undo <sha>"
RevertedOnly(i) ==
    /\ last.sha = PreLog[i].sha
    /\ last.steps = <<"revert", "commit">>
    /\ file = RevertTree(last.prefile, PreLog[i].tree, ParentTree(PreLog, i))
    /\ log = <<Commit(Sha(Len(PreLog) + 1), <<"Undo", PreLog[i].sha>>, file)>> \o PreLog
    /\ reverts # <<>> /\ reverts[Len(reverts)] = PreLog[i].sha

\* C1: without --force a successful Undo reverts exactly one commit, the
\* newest one that is not an undo-record, not the target of a newer
\* undo-record, and an auto-commit whose command is not InitCommand
C1_UndoRevertsNewestAutoCommit ==
    (UndoSucceeded /\ ~last.force) =>
        /\ NewestRevertible(PreLog, last.idx, FALSE)
        /\ RevertedOnly(last.idx)

\* a successful Undo without --force that passed over newer commits
C1_Witness ==
    /\ UndoSucceeded /\ ~last.force
    /\ last.idx >= 3
    /\ \E j \in 1..(last.idx - 1) : ~IsUndoRecord(PreLog[j])

\* C2: with --force Undo reverts the newest commit that is neither an
\* undo-record nor already undone, whatever its message, and a commit that the
\* loop reverts without --force it reverts with --force too
C2_ForceWidensEligibility ==
    /\ (UndoRan /\ last.force) =>
          /\ last.found <=> \E i \in 1..Len(PreLog) : Revertible(PreLog, i, TRUE)
          /\ last.found => NewestRevertible(PreLog, last.idx, TRUE)
          /\ UndoSucceeded => RevertedOnly(last.idx)
    /\ \A i \in 1..Len(log) :
          Classify(log[i], UndoTargets(log, 1..(i - 1)), FALSE) = "undo"
              => Classify(log[i], UndoTargets(log, 1..(i - 1)), TRUE) = "undo"

\* a successful Undo with --force that reverted the InitCommand auto-commit
C2_Witness ==
    /\ UndoSucceeded /\ last.force
    /\ PreLog[last.idx].msg = AutoCommitMsg("Init")

\* C3: Undo never reverts an undo-record, with or without --force; an
\* undo-record only adds its target to the already-undone set
C3_UndoRecordNeverReverted ==
    /\ UndoRan =>
          /\ last.found => ~IsUndoRecord(PreLog[last.idx])
          /\ last.undone_shas =
                UndoTargets(PreLog, IF last.found THEN 1..(last.idx - 1) ELSE 1..Len(PreLog))
    /\ \A k \in 1..Len(reverts) : \A i \in 1..Len(log) :
          log[i].sha = reverts[k] => ~IsUndoRecord(log[i])

\* an Undo with --force that met an undo-record first and reverted an older commit
C3_Witness ==
    /\ UndoSucceeded /\ last.force
    /\ IsUndoRecord(PreLog[1])
    /\ last.idx > 1

\* C4: no commit is reverted more than once; a commit that an "Undo <id>"
\* commit of the log names is not reverted by a later Undo
C4_NoCommitRevertedTwice ==
    /\ \A j, k \in 1..Len(reverts) : j # k => reverts[j] # reverts[k]
    /\ (UndoRan /\ last.found) => last.sha \notin UndoTargets(PreLog, 1..Len(PreLog))

\* two successful Undo invocations, the second one skipping the commit that
\* the first one reverted
C4_Witness ==
    /\ Len(reverts) = 2
    /\ UndoSucceeded
    /\ reverts[1] \in last.undone_shas
    /\ \E i \in 1..(last.idx - 1) : PreLog[i].sha = reverts[1]

\* the messages and identifiers of a log, newest first
Lines(lines) == [i \in 1..Len(lines) |-> <<lines[i].sha, lines[i].msg>>]

\* the last command left the log, the backing file and the Database alone
NothingDone ==
    /\ last.steps = <<>>
    /\ ~last.reloaded
    /\ log = PreLog
    /\ file = last.prefile
    /\ db = last.predb

\* C5: from the log [c3 Add, c2 Add, c1 Init] an Undo without --force reverts
\* c3 only and commits "Undo c3"; the next one reverts c2, never c1
C5_ScenarioTwoUndos ==
    /\ ( /\ UndoRan /\ ~last.force
         /\ Lines(PreLog) = << <<"c3", AutoCommitMsg("Add")>>, <<"c2", AutoCommitMsg("Add")>>,
                               <<"c1", AutoCommitMsg("Init")>> >> )
       => /\ last.found /\ last.sha = "c3"
          /\ UndoSucceeded => /\ RevertedOnly(1)
                              /\ Lines(log)[1] = <<"c4", <<"Undo", "c3">> >>
    /\ ( /\ UndoRan /\ ~last.force
         /\ Lines(PreLog) = << <<"c4", <<"Undo", "c3">> >>,
                               <<"c3", AutoCommitMsg("Add")>>, <<"c2", AutoCommitMsg("Add")>>,
                               <<"c1", AutoCommitMsg("Init")>> >> )
       => /\ last.found /\ last.sha = "c2"
          /\ UndoSucceeded => RevertedOnly(3)

\* the second Undo of the scenario has succeeded
C5_Witness ==
    /\ UndoSucceeded /\ ~last.force
    /\ reverts = <<"c3", "c2">>
    /\ Lines(log) = << <<"c5", <<"Undo", "c2">> >>, <<"c4", <<"Undo", "c3">> >>,
                       <<"c3", AutoCommitMsg("Add")>>, <<"c2", AutoCommitMsg("Add")>>,
                       <<"c1", AutoCommitMsg("Init")>> >>

\* C6: from the log [c2 "Undo c1", c1 Add] an Undo finds no commit to
\* revert: it reverts nothing and exits with status 1
C6_ScenarioAlreadyUndone ==
    ( /\ UndoRan
      /\ Lines(PreLog) = << <<"c2", <<"Undo", "c1">> >>, <<"c1", AutoCommitMsg("Add")>> >> )
    => /\ ~last.found
       /\ last.status = "exit1"
       /\ NothingDone

\* an Undo has run on the log of the scenario
C6_Witness ==
    /\ UndoRan /\ ~last.force
    /\ last.status = "exit1"
    /\ Lines(log) = << <<"c2", <<"Undo", "c1">> >>, <<"c1", AutoCommitMsg("Add")>> >>
    /\ last.undone_shas = {"c1"}

\* C7: when the scan ends with no commit to revert, Undo logs the warning
\* "Could not find a commit to undo", exits with status 1 and has reverted
\* nothing, committed nothing and not reloaded the Database
C7_NothingToUndo ==
    (UndoRan /\ ~\E i \in 1..Len(PreLog) : Revertible(PreLog, i, last.force))
    => /\ last.logs = {<<"WARNING", MsgNothingToUndo>>}
       /\ last.status = "exit1"
       /\ NothingDone

\* an Undo with --force that scanned a log of three commits or more in vain
C7_Witness ==
    /\ UndoRan /\ last.force
    /\ last.status = "exit1"
    /\ Len(log) >= 3

\* C8: Undo reads the log and reverts only if tracking is enabled and the
\* directory is under version control; otherwise it logs an error and returns
\* with the log, the backing file and the Database unchanged
C8_PreconditionsChecked ==
    /\ (last.cmd = "undo" /\ ~(git_tracked /\ git_init))
       => /\ \E msg \in {MsgTrackingDisabled, MsgNotInitialized} :
                last.logs = {<<"ERROR", msg>>}
          /\ last.status = "returned"
          /\ ~last.found /\ last.undone_shas = {}
          /\ NothingDone
    /\ (last.cmd = "undo" /\ (last.found \/ last.steps # <<>> \/ last.undone_shas # {}))
       => git_tracked /\ git_init

\* an Undo with --force in a repository whose newest commit it could revert,
\* with tracking disabled in the configuration
C8_Witness ==
    /\ last.cmd = "undo" /\ last.force
    /\ ~git_tracked /\ git_init
    /\ Revertible(log, 1, TRUE)
    /\ file # EmptyMap

\* C9: when the revert/commit sequence exits non-zero, Undo logs an error,
\* does not reload the Database, tries no older commit and returns normally
C9_FailedUndoStops ==
    (UndoRan /\ last.found /\ last.returncode # 0)
    => /\ last.logs = {<<"ERROR", MsgUnsuccessful>>}
       /\ ~last.reloaded /\ db = last.predb
       /\ last.status = "returned"
       /\ last.steps = <<"revert", "commit">>
       /\ NewestRevertible(PreLog, last.idx, last.force)
       /\ last.sha = PreLog[last.idx].sha

\* a failed Undo that left an older revertible commit untried
C9_Witness ==
    /\ UndoRan /\ last.found /\ last.returncode # 0
    /\ \E j \in (last.idx + 1)..Len(PreLog) : Revertible(PreLog, j, last.force)

(***************************************************************************)
(* Add followed by Undo                                                    *)
(***************************************************************************)
\* the labels that the Add right before the last command inserted
Inserted == last.prev.new_labels \ DOMAIN last.prev.predb

\* the last command is a successful Undo that follows, with tracking enabled,
\* an Add that inserted a new label
UndoAfterAdd ==
    /\ UndoSucceeded
    /\ git_tracked /\ git_init
    /\ last.prev.add
    /\ Inserted # {}

\* C10 as stated: after an Add that inserts a new label, followed by a
\* successful Undo, the Database no longer holds the label, the newest commit
\* is an "Undo ..." commit and the Database equals the one before the Add
C10_Original ==
    UndoAfterAdd =>
        /\ \A l \in Inserted : l \notin DOMAIN db
        /\ IsUndoRecord(log[1])
        /\ db = last.prev.predb

\* C10, amended: after an Add that starts with the backing file matching the
\* newest commit and the Database matching the backing file, and that inserts
\* a new label, followed by a successful Undo, the Database no longer holds
\* the label (it is reloaded from the reverted backing file), the newest
\* commit is an "Undo ..." commit and the Database equals the one before the
\* Add
C10_UndoAfterCleanAdd ==
    (UndoAfterAdd /\ last.prev.clean) =>
        /\ \A l \in Inserted : l \notin DOMAIN db
        /\ IsUndoRecord(log[1])
        /\ last.reloaded /\ db = Load(file)
        /\ db = last.prev.predb

\* an Add into a Database that held another entry, then a successful Undo
C10_Witness ==
    /\ UndoAfterAdd /\ last.prev.clean
    /\ db # EmptyMap
    /\ db = last.prev.predb

(***************************************************************************)
(* Properties of the Add command                                           *)
(***************************************************************************)
\* the last command was an Add that went through to its report
AddRan == last.cmd = "add" /\ last.status = "returned" /\ last.steps # <<>>

\* the last command was an Add that stopped before the merge and left the
\* Database, the backing file and the commit log as they were
AddAborted ==
    /\ last.steps = <<>>
    /\ last.new_labels = {}
    /\ db = last.predb
    /\ file = last.prefile
    /\ log = PreLog

\* the last Add parsed a source of one record
ParsedOne == AddRan /\ last.source # Malformed /\ Cardinality(last.source) = 1

\* the label the parser gave to the record
ParsedLabel == CHOOSE l \in last.source : TRUE

\* the label under which the Add merges its sole entry
MergedLabel == IF last.label # None THEN last.label ELSE ParsedLabel

\* C11: an Add with a source of one record and --label L renames the sole
\* result before the merge: the Database maps L to an Entry with label L and
\* ID L, which is the parsed record when L is new, and the parser-given label
\* is not a key inserted by this Add
C11_LabelOverride ==
    (ParsedOne /\ last.label # None) =>
        /\ last.label \in DOMAIN db
        /\ db[last.label].label = last.label
        /\ db[last.label].data.ID = last.label
        /\ last.new_labels \subseteq {last.label}
        /\ last.label \notin DOMAIN last.predb =>
              /\ last.new_labels = {last.label}
              /\ db[last.label].data.title = "T"
        /\ ParsedLabel # last.label =>
              Get(db, ParsedLabel) = Get(last.predb, ParsedLabel)

\* an Add that renamed the record a to the new label b, in a Database without a
C11_Witness ==
    /\ ParsedOne /\ last.label = "b"
    /\ ParsedLabel = "a"
    /\ "b" \notin DOMAIN last.predb
    /\ "a" \notin DOMAIN db

\* the tokens joined with ", "
RECURSIVE PlainJoin(_)
PlainJoin(tags) ==
    IF Len(tags) = 1 THEN tags[1]
    ELSE tags[1] \o <<",", " ">> \o PlainJoin(Tail(tags))

\* no token starts or ends with a plus sign, a comma or a blank
PlainTokens(tags) ==
    \A i \in 1..Len(tags) :
        /\ tags[i] # <<>>
        /\ tags[i][1] \notin {"+", ",", " "}
        /\ tags[i][Len(tags[i])] \notin {"+", ",", " "}

\* the last Add parsed a source of one record and was given tags
TagsGiven == ParsedOne /\ last.tags # <<>>

\* the Database holds the merged label with the tokens joined as its tags
TagsJoined ==
    /\ MergedLabel \in DOMAIN db
    /\ "tags" \in DOMAIN db[MergedLabel].data
    /\ db[MergedLabel].data.tags = PlainJoin(last.tags)

Manual == AddRan /\ last.source = {} /\ last.label # None

\* the Add inserted exactly one Entry, under its label, with the default
\* entry type and the identifier as its only fields
InsertedBare ==
    /\ last.new_labels = {last.label}
    /\ DOMAIN last.merged = DOMAIN last.predb \cup {last.label}
    /\ \A l \in DOMAIN last.predb : last.merged[l] = last.predb[l]
    /\ last.merged[last.label].label = last.label
    /\ last.merged[last.label].data
          = [ID |-> last.label, ENTRYTYPE |-> default_entry_type]

\* the Add ran the edit flow after the merge and before the save
EditedBeforeSave ==
    /\ last.edited
    /\ \E i, j \in 1..Len(last.steps) :
          /\ i < j
          /\ last.steps[i] = "edit"
          /\ last.steps[j] = "save"
    /\ \A l \in DOMAIN db : file[l] = db[l].data

\* C13 as stated: a manual creation under a label that the Database does not
\* hold inserts one Entry with the entry type and the identifier only, and
\* runs the edit flow before the save
C13_Original ==
    (Manual /\ last.label \notin DOMAIN last.predb)
        => (InsertedBare /\ EditedBeforeSave)

\* C13, amended: a manual creation with no file and no tags, under a label
\* that the Database does not hold, inserts one Entry with the entry type and
\* the identifier only, and runs the edit flow before the save
C13_ManualCreation ==
    (Manual /\ last.label \notin DOMAIN last.predb
            /\ last.path = None /\ last.tags = <<>>)
        => (InsertedBare /\ EditedBeforeSave)

\* a manual creation of b in a Database that holds a, in which the user
\* filled in a field
C13_Witness ==
    /\ Manual /\ last.label = "b" /\ last.path = None /\ last.tags = <<>>
    /\ DOMAIN last.predb = {"a"}
    /\ last.edited
    /\ "title" \in DOMAIN db["b"].data
    /\ "title" \notin DOMAIN last.merged["b"].data

\* the last Add was a manual creation under a label that the Database held
ManualExisting == Manual /\ last.label \in DOMAIN last.predb

\* the Add did not run the edit flow
NotEdited ==
    /\ ~last.edited
    /\ \A i \in 1..Len(last.steps) : last.steps[i] # "edit"

\* the one-line warning
MsgExistsLine(label) ==
    "You tried to add a new entry '" \o label \o "' which already exists!"

NoInput == last.cmd = "add" /\ last.source = {} /\ last.label = None

\* the Add logged the error and returned
NoInputError ==
    /\ last.status = "returned"
    /\ last.logs = {<<"ERROR", MsgNoInput>>}

\* C16 as stated: an Add with no source and no label logs the error that
\* neither an input nor a label is given and leaves the Database, the backing
\* file and the commit log as they were
C16_Original == NoInput => (NoInputError /\ AddAborted)

\* C16, amended: an Add with arguments among which there is no source and no
\* label logs the error that neither an input nor a label is given and
\* leaves the Database, the backing file and the commit log as they were
C16_NoInputAborts ==
    (NoInput /\ (last.path # None \/ last.tags # <<>>))
        => (NoInputError /\ AddAborted)

\* an Add with tags only, on a Database that holds an entry
C16_Witness ==
    /\ NoInput /\ last.tags # <<>> /\ last.path = None
    /\ last.logs = {<<"ERROR", MsgNoInput>>}
    /\ db # EmptyMap

\* the last command was an Add with an override on a source of several
\* records
OverrideOnMany ==
    /\ last.cmd = "add"
    /\ last.source # Malformed /\ Cardinality(last.source) > 1
    /\ (last.label # None \/ last.path # None \/ last.tags # <<>>)

\* C17: an Add with a label, file or tag override on a batch of more than
\* one entry stops on the assertion, before the merge: the Database, the
\* backing file and the commit log are as they were
C17_OverrideOnManyAborts ==
    OverrideOnMany => (last.status = "assert" /\ AddAborted)

\* an Add of two records with tags only, on a Database that holds an entry
C17_Witness ==
    /\ OverrideOnMany /\ last.label = None /\ last.path = None
    /\ last.status = "assert"
    /\ db # EmptyMap /\ DOMAIN db # last.source

\* the last command was an Add whose parser failed
ParserFailed == last.cmd = "add" /\ last.source = Malformed

\* C18: an Add whose parser fails inserts and replaces no entry, writes no
\* backing file and creates no commit
C18_ParserFailureAborts ==
    ParserFailed => (last.status = "raised" /\ AddAborted)

\* an Add whose parser failed, with a label, on a Database that holds an entry
C18_Witness ==
    /\ ParserFailed /\ last.label = "b"
    /\ last.status = "raised"
    /\ db # EmptyMap /\ log # <<>>

\* the last command was a call of matches
MatchesRan == last.cmd = "matches"

\* the keys of the filter whose field the Entry does not hold
AbsentKeys ==
    {i \in 1..Len(last.filter) : last.filter[i].field \notin DOMAIN last.entry.data}

\* the (field, flag, substring) elements of the filter, for the fields that
\* the Entry holds
Elements ==
    UNION {{<<i, k>> : k \in 1..Len(last.filter[i].values)} :
              i \in (1..Len(last.filter)) \ AbsentKeys}

\* an element is satisfied: its substring is contained for include, not
\* contained for exclude
Satisfied(el) ==
    LET key == last.filter[el[1]]
    IN  Contains(key.values[el[2]], last.entry.data[key.field]) <=> key.flag

\* a key whose field the Entry does not hold counts as a match exactly when
\* its flag is exclude
AbsentMatch(i) == ~last.filter[i].flag

\* the outcome with the keys of absent fields counted by their flags
Expected ==
    IF last.any
    THEN (\E el \in Elements : Satisfied(el)) \/ (\E i \in AbsentKeys : AbsentMatch(i))
    ELSE (\A el \in Elements : Satisfied(el)) /\ (\A i \in AbsentKeys : AbsentMatch(i))

\* C19: matches on an Entry that lacks a filtered field returns normally,
\* and the filter key of the absent field counts as a match exactly when its
\* flag is exclude
C19_AbsentFieldReturns ==
    (MatchesRan /\ AbsentKeys # {}) =>
        (~last.result.raised /\ last.result.value = Expected)

\* C20: for an Entry that holds every filtered field, matches with the AND
\* combination returns true exactly when every element is satisfied, and
\* with the OR combination exactly when at least one element is satisfied
C20_AndOrCombination ==
    (MatchesRan /\ AbsentKeys = {}) =>
        /\ ~last.result.raised
        /\ ~last.any => (last.result.value <=> \A el \in Elements : Satisfied(el))
        /\ last.any => (last.result.value <=> \E el \in Elements : Satisfied(el))

\* a call with two keys on fields that the Entry holds, one element satisfied
\* and one not, which returned true under the OR combination
C20_Witness ==
    /\ MatchesRan /\ AbsentKeys = {} /\ last.any
    /\ Len(last.filter) = 2
    /\ \E el \in Elements : Satisfied(el)
    /\ \E el \in Elements : ~Satisfied(el)
    /\ last.result.value

(***************************************************************************)
(* Properties of Entry.set_tags                                            *)
(***************************************************************************)
\* the last command was a call of set_tags
SetTagsRan == last.cmd = "set_tags"

\* a token without its leading plus signs and without the blanks around it,
\* the blanks taken off after the plus signs or before them
TrimmedAfter(tag) == strip(lstrip(tag, {"+"}), {" "})

TrimmedBefore(tag) == lstrip(strip(tag, {" "}), {"+"})

\* the tokens, each mapped by Trim, joined with ", "
RECURSIVE JoinWith(_, _)
JoinWith(Trim(_), tags) ==
    IF Len(tags) = 1 THEN Trim(tags[1])
    ELSE Trim(tags[1]) \o <<",", " ">> \o JoinWith(Trim, Tail(tags))

\* C21: set_tags on a non-empty list of tokens sets the tags field to the
\* tokens joined with ", ", each token without its leading plus signs and
\* without the blanks around it, every other character being kept
C21_TagsTrimmed ==
    SetTagsRan =>
        \/ last.entry.data.tags = JoinWith(TrimmedAfter, last.tags)
        \/ last.entry.data.tags = JoinWith(TrimmedBefore, last.tags)

(***************************************************************************)
(* Properties of the YAML converters                                       *)
(***************************************************************************)
\* the last command wrote an Entry as YAML and read it back
RoundTripRan == last.cmd = "from_yaml"

FromPdfRan == last.cmd = "from_pdf" /\ last.status = "returned"

\* the DOI handed on is a match, and no match occurs more often
MostFrequent ==
    /\ \E i \in 1..Len(last.dois) : last.dois[i] = last.doi
    /\ \A i \in 1..Len(last.dois) :
          Count(last.dois, last.dois[i]) <= Count(last.dois, last.doi)

\* the place of the first occurrence of a DOI in the text
FirstAt(doi) == CHOOSE i \in 1..Len(last.dois) :
                    /\ last.dois[i] = doi
                    /\ \A j \in 1..(i - 1) : last.dois[j] # doi

\* among the DOIs that occur as often, the DOI handed on occurs first
FirstOfTies ==
    \A i \in 1..Len(last.dois) :
        Count(last.dois, last.dois[i]) = Count(last.dois, last.doi)
            => FirstAt(last.doi) <= i

\* C23 as stated: the DOI handed to the DOI parser occurs most often among
\* the matches, and among the DOIs that occur as often it is the first in the
\* text
C23_Original == FromPdfRan => (MostFrequent /\ FirstOfTies)

\* C23, amended: the DOI handed to the DOI parser is a match that occurs most
\* often among the matches, and it is the only such match or one of those
\* that tie
C23_MostCommonDoi == FromPdfRan => MostFrequent

\* two DOIs occur twice each, and the DOI handed on is the one of the two
\* that comes later in the text
C23_Witness ==
    /\ FromPdfRan /\ MostFrequent
    /\ Len(last.dois) = 4
    /\ Count(last.dois, last.doi) = 2
    /\ \E i \in 1..Len(last.dois) :
          /\ Count(last.dois, last.dois[i]) = 2
          /\ i < FirstAt(last.doi)

(***************************************************************************)
(* The revert step of an Undo                                              *)
(***************************************************************************)
\* the last command was an Undo whose revert step exited non-zero
RevertFailed == UndoRan /\ last.found /\ last.revert_rc # 0

\* C24: when the revert step of an Undo exits non-zero, the Undo is reported
\* as unsuccessful and the Database is not reloaded, whatever the exit status
\* of the commit step
C24_RevertFailureReported ==
    RevertFailed =>
        /\ <<"ERROR", MsgUnsuccessful>> \in last.logs
        /\ ~last.reloaded

(***************************************************************************)
(* The order of the steps of an Add                                        *)
(***************************************************************************)
\* the places of a step among the steps of the last command
Places(step) == {i \in 1..Len(last.steps) : last.steps[i] = step}

\* a step was taken once, and every step named in later was taken after it
OnceBefore(step, later) ==
    /\ Cardinality(Places(step)) = 1
    /\ \A s \in later : \A i \in Places(step), j \in Places(s) : i < j

\* the Add made exactly one commit: an auto-commit of the AddCommand that
\* holds the backing file as it was written from the Database
OneAutoCommit ==
    /\ Cardinality(Places("commit")) = 1
    /\ Len(log) = Len(PreLog) + 1
    /\ log[1].msg = AutoCommitMsg("Add")
    /\ log[1].tree = file
    /\ file = Dump(db)

\* the Add made no commit
NoCommit == Places("commit") = {} /\ log = PreLog

\* the Add merged, saved and reported, in this order
MergeSaveReport ==
    /\ OnceBefore("update", {"save", "commit", "report"})
    /\ OnceBefore("save", {"commit", "report"})
    /\ OnceBefore("report", {})
    /\ \A i \in Places("commit"), j \in Places("report") : i < j
    /\ file = Dump(db)

C26_KeysMirrorLabels ==
    \A l \in DOMAIN db : db[l].label = l /\ db[l].data.ID = l

\* a Database with two entries, the last of them the record a added under
\* the label b
C26_Witness ==
    /\ DOMAIN db = {"a", "b"}
    /\ ParsedOne /\ ParsedLabel = "a" /\ last.label = "b"
    /\ last.new_labels = {"b"}
    /\ db["b"].data.title = "T"
    /\ C26_KeysMirrorLabels

(***************************************************************************)
(* Properties of the arXiv parser                                          *)
(***************************************************************************)
\* the last command parsed the metadata of an arXiv entry
FromArxivRan == last.cmd = "from_arxiv"

\* the surname of the first author followed by the year of publication
SurnameYear == Surname(last.authors[1]) \o Year(Published)

\* C27: the label that the arXiv parser gives is the surname of the first
\* author followed by the year of publication, for any number of authors and
\* with the author elements before or after the published element
C27_ArxivLabel ==
    FromArxivRan =>
        /\ DOMAIN last.batch = {SurnameYear}
        /\ last.batch[SurnameYear].label = SurnameYear
        /\ last.batch[SurnameYear].data.ID = SurnameYear
        /\ last.entry.label = SurnameYear

\* three authors, the published element between the first and the second
C27_Witness ==
    /\ FromArxivRan
    /\ Len(last.authors) = 3
    /\ last.authors[1] # last.authors[2] /\ last.authors[1] # last.authors[3]
    /\ \E i \in 2..(Len(last.text) - 2) : last.text[i].name = "published"
    /\ last.text[1].name = "author"
    /\ "Beethoven1905" \in DOMAIN last.batch

(***************************************************************************)
(* Properties of the open command                                          *)
(***************************************************************************)
\* the last command was an open command that named a label
OpenRan == last.cmd = "open" /\ last.args # <<>>

\* the label exists and its Entry has a file that is not null
HasFile ==
    /\ last.args[1] \in DOMAIN db
    /\ "file" \in DOMAIN db[last.args[1]].data
    /\ db[last.args[1]].data.file # None

\* the command reported an error: returned to the TUI or printed
ErrorReported == last.returned # None \/ last.printed # {}

\* C30: the open command launches the opener exactly when the label exists
\* and its Entry has a file that is not null, passing the file to the
\* configured opener or else to that of the platform; otherwise it launches
\* nothing and reports an error, which for an Entry without a file is
\* returned to the TUI or else printed and followed by exit status 1
C30_OpenLaunches ==
    OpenRan =>
        /\ HasFile =>
              last.launched = <<ConfiguredOpener(last.config, last.platform),
                                db[last.args[1]].data.file>>
        /\ ~HasFile =>
              /\ last.launched = <<>>
              /\ ErrorReported
              /\ last.args[1] \in DOMAIN db =>
                    IF last.out = None
                    THEN last.status = "returned" /\ last.returned = MsgNoFile
                    ELSE /\ last.status = "exit" /\ last.returncode = 1
                         /\ last.printed = {<<last.out, MsgNoFile>>}

(***************************************************************************)
(* Properties of Entry.matches with an empty filter                        *)
(***************************************************************************)
\* the last command was a call of matches with a filter without keys
EmptyFilterRan == MatchesRan /\ last.filter = <<>>

\* C29 as stated: matches with an empty filter returns true for every Entry
\* under the AND and under the OR combination
C29_Original ==
    EmptyFilterRan => (~last.result.raised /\ last.result.value)

\* C29: matches with an empty filter returns true for every Entry under the
\* AND combination and false for every Entry under the OR combination
C29_EmptyFilter ==
    EmptyFilterRan => (~last.result.raised /\ (last.result.value <=> ~last.any))

\* a call with an empty filter under the OR combination on an Entry with
\* fields, which returned false
C29_Witness ==
    /\ EmptyFilterRan /\ last.any
    /\ "author" \in DOMAIN last.entry.data
    /\ ~last.result.raised /\ ~last.result.value

(***************************************************************************)
(* Properties of successive Undo invocations                               *)
(***************************************************************************)
\* the last command was an Undo without --force that got past its
\* precondition checks, and no git step of its run failed from outside
InRun ==
    /\ UndoRan /\ ~last.force
    /\ \A i \in 1..Len(last.run.attempts) : ~last.run.attempts[i].outside

\* the invocations of the run up to the last one succeeded one after the
\* other on the eligible commits, newest first, and the one after them found
\* nothing and exited with status 1
RevertedInOrder ==
    LET run == last.run
        n == Len(run.eligible)
    IN  \A i \in 1..Len(run.attempts) :
            IF i <= n
            THEN /\ run.attempts[i].found /\ run.attempts[i].succeeded
                 /\ run.attempts[i].sha = run.eligible[i]
            ELSE /\ i = n + 1
                 /\ ~run.attempts[i].found
                 /\ run.attempts[i].status = "exit1"

UntouchedByHand ==
    LET run == last.run
    IN  \A i, j \in 1..Len(run.lines) :
            (j < i /\ \E k \in 1..Len(run.eligible) : run.lines[i].sha = run.eligible[k])
                => run.lines[j].msg \notin UserMessages

====
